---------------------------- MODULE Spec2Model ----------------------------
(***************************************************************************)
(* Defaulting of the kube-scheduler v1 component configuration             *)
(* (pkg/scheduler/apis/config/v1/defaults.go).                             *)
(*                                                                         *)
(* A Go pointer is modelled as a sequence of length at most one: <<>> is   *)
(* nil and <<v>> points to v.  A Go slice is a sequence; a nil slice and   *)
(* an empty slice are both <<>> (the code only ever tests len(s) == 0).    *)
(* A float (QPS) is modelled by an integer.                                *)
(***************************************************************************)
EXTENDS Integers, Sequences, FiniteSets, TLC

VARIABLES
    cfg,                    \* the KubeSchedulerConfiguration object, mutated in place
    input,                  \* the configuration as the loader supplied it
    prev,                   \* the configuration before the latest defaulting pass
    calls,                  \* number of defaulting passes that returned
    VolumeCapacityPriority, \* feature.DefaultFeatureGate.Enabled(features.VolumeCapacityPriority)
    args,                   \* a plugin argument object handed to its SetDefaults_* function
    argsIn,                 \* that object as supplied
    argsCalls,              \* number of times it was defaulted
    schemeDefaulted         \* the <<profile, entry>> indexes the latest pass gave scheme.Default

vars == <<cfg, input, prev, calls, VolumeCapacityPriority,
          args, argsIn, argsCalls, schemeDefaulted>>

----------------------------------------------------------------------------
(* Bounds of the model.                                                    *)

MaxCalls == 2          \* defaulting passes over one configuration
MaxProfiles == 2       \* profiles in a multi-profile input
MaxEnabled == 2        \* plugins in a user Enabled list
MaxPluginConfig == 2   \* entries in an input PluginConfig list
MaxResources == 2      \* entries in an input resource-spec list
MaxWeight == 3         \* largest resource weight of an input

----------------------------------------------------------------------------
(* Constants of the program.                                               *)

DefaultSchedulerName == "default-scheduler"
DefaultPercentageOfNodesToScore == 0
SchedulerDefaultLockObjectNamespace == "kube-system"
SchedulerDefaultLockObjectName == "kube-scheduler"
SystemDefaulting == "System"
LeastAllocated == "LeastAllocated"
MaxCustomPriorityScore == 10

defaultResourceSpec ==
    << [Name |-> "cpu", Weight |-> 1], [Name |-> "memory", Weight |-> 1] >>

----------------------------------------------------------------------------
(* Default-fillers of the in-tree plugin argument types.                   *)

SetDefaults_DefaultPreemptionArgs(obj) ==
    LET o1 == IF obj.MinCandidateNodesPercentage = <<>>
              THEN [obj EXCEPT !.MinCandidateNodesPercentage = <<10>>]
              ELSE obj
    IN  IF o1.MinCandidateNodesAbsolute = <<>>
        THEN [o1 EXCEPT !.MinCandidateNodesAbsolute = <<100>>]
        ELSE o1

\* Variant: assigns the default without the nil check.
InterPodAffinity_Overwrite(obj) ==
    [obj EXCEPT !.HardPodAffinityWeight = <<1>>]

SetDefaults_InterPodAffinityArgs(obj) ==
    IF obj.HardPodAffinityWeight = <<>>
    THEN [obj EXCEPT !.HardPodAffinityWeight = <<1>>]
    ELSE obj

\* Variant: fills the Shape without asking the feature gate.
VolumeBinding_IgnoreGate(obj) ==
    LET o1 == IF obj.BindTimeoutSeconds = <<>>
              THEN [obj EXCEPT !.BindTimeoutSeconds = <<600>>]
              ELSE obj
    IN  IF Len(o1.Shape) = 0
        THEN [o1 EXCEPT !.Shape =
                  << [Utilization |-> 0, Score |-> 0],
                     [Utilization |-> 100, Score |-> MaxCustomPriorityScore] >>]
        ELSE o1

SetDefaults_VolumeBindingArgs(obj) ==
    LET o1 == IF obj.BindTimeoutSeconds = <<>>
              THEN [obj EXCEPT !.BindTimeoutSeconds = <<600>>]
              ELSE obj
    IN  IF Len(o1.Shape) = 0 /\ VolumeCapacityPriority
        THEN [o1 EXCEPT !.Shape =
                  << [Utilization |-> 0, Score |-> 0],
                     [Utilization |-> 100, Score |-> MaxCustomPriorityScore] >>]
        ELSE o1

\* Variant: leaves the weights as they are.
DefaultWeights_Keep(rs) == rs

\* The loop "if Resources[i].Weight == 0 { Resources[i].Weight = 1 }".
DefaultWeights(rs) ==
    [i \in 1..Len(rs) |->
        IF rs[i].Weight = 0 THEN [rs[i] EXCEPT !.Weight = 1] ELSE rs[i]]

SetDefaults_NodeResourcesBalancedAllocationArgs(obj) ==
    IF Len(obj.Resources) = 0
    THEN [obj EXCEPT !.Resources = defaultResourceSpec]
    ELSE [obj EXCEPT !.Resources = DefaultWeights(@)]

SetDefaults_PodTopologySpreadArgs(obj) ==
    IF obj.DefaultingType = ""
    THEN [obj EXCEPT !.DefaultingType = SystemDefaulting]
    ELSE obj

SetDefaults_NodeResourcesFitArgs(obj) ==
    LET o1 == IF obj.ScoringStrategy = <<>>
              THEN [obj EXCEPT !.ScoringStrategy =
                        << [Type |-> LeastAllocated,
                            Resources |-> defaultResourceSpec] >>]
              ELSE obj
        s1 == o1.ScoringStrategy[1]
        s2 == IF Len(s1.Resources) = 0
              THEN [s1 EXCEPT !.Resources = @ \o defaultResourceSpec]
              ELSE s1
        s3 == [s2 EXCEPT !.Resources = DefaultWeights(@)]
    IN  [o1 EXCEPT !.ScoringStrategy = <<s3>>]

----------------------------------------------------------------------------
(* The plugin-argument registry (GetPluginArgConversionScheme).            *)

\* A typed argument object carries its Go type (Type) and its TypeMeta
\* (APIVersion, Kind), which is empty until SetGroupVersionKind is called.
ArgsZeroValue(type) ==
    CASE type = "DefaultPreemptionArgs" ->
            [Type |-> type, APIVersion |-> "", Kind |-> "",
             MinCandidateNodesPercentage |-> <<>>, MinCandidateNodesAbsolute |-> <<>>]
      [] type = "InterPodAffinityArgs" ->
            [Type |-> type, APIVersion |-> "", Kind |-> "",
             HardPodAffinityWeight |-> <<>>]
      [] type = "NodeAffinityArgs" ->
            [Type |-> type, APIVersion |-> "", Kind |-> "", AddedAffinity |-> <<>>]
      [] type = "NodeResourcesBalancedAllocationArgs" ->
            [Type |-> type, APIVersion |-> "", Kind |-> "", Resources |-> <<>>]
      [] type = "NodeResourcesFitArgs" ->
            [Type |-> type, APIVersion |-> "", Kind |-> "", ScoringStrategy |-> <<>>]
      [] type = "PodTopologySpreadArgs" ->
            [Type |-> type, APIVersion |-> "", Kind |-> "", DefaultingType |-> ""]
      [] type = "VolumeBindingArgs" ->
            [Type |-> type, APIVersion |-> "", Kind |-> "",
             BindTimeoutSeconds |-> <<>>, Shape |-> <<>>]

KnownKinds ==
    {"DefaultPreemptionArgs", "InterPodAffinityArgs", "NodeAffinityArgs",
     "NodeResourcesBalancedAllocationArgs", "NodeResourcesFitArgs",
     "PodTopologySpreadArgs", "VolumeBindingArgs"}

SchemeGroupVersion == "kubescheduler.config.k8s.io/v1"

\* scheme.New(gvk): a zero value of the kind, or an error for an unknown kind.
SchemeNew(kind) ==
    IF kind \in KnownKinds
    THEN [err |-> FALSE, obj |-> <<ArgsZeroValue(kind)>>]
    ELSE [err |-> TRUE, obj |-> <<>>]

\* scheme.Default(obj): the default-filler registered for obj's type, if any.
SchemeDefault(obj) ==
    CASE obj.Type = "DefaultPreemptionArgs" -> SetDefaults_DefaultPreemptionArgs(obj)
      [] obj.Type = "InterPodAffinityArgs" -> SetDefaults_InterPodAffinityArgs(obj)
      [] obj.Type = "VolumeBindingArgs" -> SetDefaults_VolumeBindingArgs(obj)
      [] obj.Type = "NodeResourcesBalancedAllocationArgs" ->
            SetDefaults_NodeResourcesBalancedAllocationArgs(obj)
      [] obj.Type = "PodTopologySpreadArgs" -> SetDefaults_PodTopologySpreadArgs(obj)
      [] obj.Type = "NodeResourcesFitArgs" -> SetDefaults_NodeResourcesFitArgs(obj)
      [] OTHER -> obj

\* args.GetObjectKind().SetGroupVersionKind(gvk)
SetGroupVersionKind(obj, kind) ==
    [obj EXCEPT !.APIVersion = SchemeGroupVersion, !.Kind = kind]

\* args.(*runtime.Unknown)
isUnknown(a) == a.Type = "Unknown"

----------------------------------------------------------------------------
(* Plugin pipelines and the merge collaborator.                            *)

\* The twelve extension points, in the order pluginsNames lists them.
extensions ==
    << "MultiPoint", "PreFilter", "Filter", "PostFilter", "Reserve", "PreScore",
       "Score", "PreBind", "Bind", "PostBind", "Permit", "QueueSort" >>

ExtensionSet == {extensions[i] : i \in 1..Len(extensions)}

EmptyPluginSet == [Enabled |-> <<>>, Disabled |-> <<>>]

EmptyPlugins == [e \in ExtensionSet |-> EmptyPluginSet]

Plugin(name, weight) == [Name |-> name, Weight |-> weight]

getDefaultPlugins ==
    [EmptyPlugins EXCEPT !.MultiPoint.Enabled =
        << Plugin("PrioritySort", <<>>), Plugin("NodeUnschedulable", <<>>),
           Plugin("NodeName", <<>>), Plugin("TaintToleration", <<3>>),
           Plugin("NodeAffinity", <<2>>), Plugin("NodePorts", <<>>),
           Plugin("NodeResourcesFit", <<1>>), Plugin("VolumeRestrictions", <<>>),
           Plugin("EBSLimits", <<>>), Plugin("GCEPDLimits", <<>>),
           Plugin("NodeVolumeLimits", <<>>), Plugin("AzureDiskLimits", <<>>),
           Plugin("VolumeBinding", <<>>), Plugin("VolumeZone", <<>>),
           Plugin("PodTopologySpread", <<2>>), Plugin("InterPodAffinity", <<2>>),
           Plugin("DefaultPreemption", <<>>),
           Plugin("NodeResourcesBalancedAllocation", <<1>>),
           Plugin("ImageLocality", <<1>>), Plugin("DefaultBinder", <<>>) >>]

SeqNames(s) == {s[i].Name : i \in 1..Len(s)}

\* The last index at which name occurs in s (a Go map keeps the last insert).
LastIndex(s, name) ==
    CHOOSE i \in 1..Len(s) :
        /\ s[i].Name = name
        /\ \A j \in (i+1)..Len(s) : s[j].Name # name

mergePluginSet(defaultPluginSet, customPluginSet) ==
    LET disabled == [i \in 1..Len(customPluginSet.Disabled) |->
                        Plugin(customPluginSet.Disabled[i].Name, <<>>)]
                    \o [i \in 1..Len(defaultPluginSet.Disabled) |->
                        Plugin(defaultPluginSet.Disabled[i].Name, <<>>)]
        disabledPlugins == SeqNames(disabled)
        custom == customPluginSet.Enabled
        kept == IF "*" \in disabledPlugins
                THEN <<>>
                ELSE SelectSeq(defaultPluginSet.Enabled,
                               LAMBDA d : d.Name \notin disabledPlugins)
        replaced == {LastIndex(custom, kept[k].Name) :
                        k \in {k \in 1..Len(kept) : kept[k].Name \in SeqNames(custom)}}
        head == [k \in 1..Len(kept) |->
                    IF kept[k].Name \in SeqNames(custom)
                    THEN custom[LastIndex(custom, kept[k].Name)]
                    ELSE kept[k]]
        restIdx == SelectSeq([i \in 1..Len(custom) |-> i],
                             LAMBDA i : i \notin replaced)
        rest == [k \in 1..Len(restIdx) |-> custom[restIdx[k]]]
    IN  [Enabled |-> head \o rest, Disabled |-> disabled]

\* mergePlugins(defaultPlugins, customPlugins); customPlugins is a pointer,
\* and so is the single value returned.
mergePlugins(defaultPlugins, customPlugins) ==
    IF customPlugins = <<>>
    THEN <<defaultPlugins>>
    ELSE << [e \in ExtensionSet |->
                mergePluginSet(defaultPlugins[e], customPlugins[1][e])] >>

----------------------------------------------------------------------------
(* pluginsNames: the sorted set of plugin names enabled anywhere.          *)

\* Byte order of the plugin names (sort.Strings inside sets.String.List).
StringOrder ==
    << "*", "AzureDiskLimits", "Custom", "DefaultBinder", "DefaultPreemption",
       "EBSLimits", "GCEPDLimits", "ImageLocality", "InterPodAffinity",
       "NodeAffinity", "NodeName", "NodePorts", "NodeResourcesBalancedAllocation",
       "NodeResourcesFit", "NodeUnschedulable", "NodeVolumeLimits",
       "PodTopologySpread", "PrioritySort", "TaintToleration", "VolumeBinding",
       "VolumeRestrictions", "VolumeZone" >>

\* sets.String.List(): the members in ascending order.
List(S) == SelectSeq(StringOrder, LAMBDA n : n \in S)

\* The names enabled at any extension point of pipeline p.
EnabledNames(p) ==
    UNION {SeqNames(p[e].Enabled) : e \in ExtensionSet}

\* The names enabled in pipeline p, in the order the loops visit them.
EnabledInOrder(p) ==
    LET names(e) == [k \in 1..Len(p[e].Enabled) |-> p[e].Enabled[k].Name]
    IN  names("MultiPoint") \o names("PreFilter") \o names("Filter")
        \o names("PostFilter") \o names("Reserve") \o names("PreScore")
        \o names("Score") \o names("PreBind") \o names("Bind")
        \o names("PostBind") \o names("Permit") \o names("QueueSort")

FirstOccurrences(s) ==
    LET idx == SelectSeq([i \in 1..Len(s) |-> i],
                         LAMBDA i : \A j \in 1..(i-1) : s[j] # s[i])
    IN  [k \in 1..Len(idx) |-> s[idx[k]]]

\* Variant: the names in the order of their first occurrence.
pluginsNames_Unsorted(p) ==
    IF p = <<>> THEN <<>> ELSE FirstOccurrences(EnabledInOrder(p[1]))

\* Variant: the names of the MultiPoint extension point only.
pluginsNames_OnlyMultiPoint(p) ==
    IF p = <<>> THEN <<>> ELSE List(SeqNames(p[1].MultiPoint.Enabled))

pluginsNames(p) ==
    IF p = <<>> THEN <<>> ELSE List(EnabledNames(p[1]))

----------------------------------------------------------------------------
(* setDefaults_KubeSchedulerProfile.                                       *)

\* Variant: passes over an opaque entry before recording its name.
DefaultExisting_SkipBeforeInsert(pc) ==
    [configs |-> [j \in 1..Len(pc) |->
                    IF isUnknown(pc[j].Args) THEN pc[j]
                    ELSE [pc[j] EXCEPT !.Args = SchemeDefault(@)]],
     existingConfigs |-> {pc[j].Name : j \in {j \in 1..Len(pc) : ~isUnknown(pc[j].Args)}},
     defaulted |-> {j \in 1..Len(pc) : ~isUnknown(pc[j].Args)}]

\* The loop over the entries already in prof.PluginConfig: the entries after
\* it, the names it recorded, and the indexes it passed to scheme.Default.
DefaultExistingConfigs(pc) ==
    [configs |-> [j \in 1..Len(pc) |->
                    IF isUnknown(pc[j].Args) THEN pc[j]
                    ELSE [pc[j] EXCEPT !.Args = SchemeDefault(@)]],
     existingConfigs |-> {pc[j].Name : j \in 1..Len(pc)},
     defaulted |-> {j \in 1..Len(pc) : ~isUnknown(pc[j].Args)}]

\* The entry the loop appends for plugin name, whose kind the registry knows.
NewPluginConfig(name) ==
    [Name |-> name,
     Args |-> SetGroupVersionKind(SchemeDefault(SchemeNew(name \o "Args").obj[1]),
                                  name \o "Args")]

\* Variant: appends a config whether or not the name has one.
AppendDefault_IgnoreExisting(pc, names, existingConfigs) ==
    LET missing == SelectSeq(names, LAMBDA name : ~SchemeNew(name \o "Args").err)
    IN  pc \o [k \in 1..Len(missing) |-> NewPluginConfig(missing[k])]

\* The loop over pluginsNames(prof.Plugins) that appends the missing configs:
\* a name is passed over when it has a config or the registry has no kind for it.
AppendDefaultConfigs(pc, names, existingConfigs) ==
    LET missing == SelectSeq(names, LAMBDA name :
                       /\ name \notin existingConfigs
                       /\ ~SchemeNew(name \o "Args").err)
    IN  pc \o [k \in 1..Len(missing) |-> NewPluginConfig(missing[k])]

\* The rest of setDefaults_KubeSchedulerProfile once the pipelines are merged:
\* ex is what the loop over the existing entries produced.
CompletePluginConfig(prof, plugins, ex) ==
    [prof |-> [prof EXCEPT
                  !.Plugins = plugins,
                  !.PluginConfig = AppendDefaultConfigs(ex.configs, pluginsNames(plugins),
                                                        ex.existingConfigs)],
     defaulted |-> ex.defaulted]

\* The profile as the call leaves it, and the entries given to scheme.Default.
setDefaults_KubeSchedulerProfile(prof) ==
    CompletePluginConfig(prof, mergePlugins(getDefaultPlugins, prof.Plugins),
                         DefaultExistingConfigs(prof.PluginConfig))

----------------------------------------------------------------------------
(* SetDefaults_KubeSchedulerConfiguration.                                 *)

EmptyProfile == [SchedulerName |-> <<>>, Plugins |-> <<>>, PluginConfig |-> <<>>]

\* Variant: names every unnamed profile, however many there are.
DefaultName_EveryProfile(obj) ==
    LET o1 == IF Len(obj.Profiles) = 0
              THEN [obj EXCEPT !.Profiles = Append(@, EmptyProfile)]
              ELSE obj
    IN  [o1 EXCEPT !.Profiles =
            [i \in 1..Len(o1.Profiles) |->
                IF o1.Profiles[i].SchedulerName = <<>>
                THEN [o1.Profiles[i] EXCEPT !.SchedulerName = <<DefaultSchedulerName>>]
                ELSE o1.Profiles[i]]]

\* At least one profile, and the default scheduler name for a single one.
DefaultSingleProfile(obj) ==
    LET o1 == IF Len(obj.Profiles) = 0
              THEN [obj EXCEPT !.Profiles = Append(@, EmptyProfile)]
              ELSE obj
    IN  IF Len(o1.Profiles) = 1 /\ o1.Profiles[1].SchedulerName = <<>>
        THEN [o1 EXCEPT !.Profiles[1].SchedulerName = <<DefaultSchedulerName>>]
        ELSE o1

\* "for i := range obj.Profiles { setDefaults_KubeSchedulerProfile(prof) }",
\* r[i] being what the call on profile i yields.  Each call works on its own
\* profile.
LoopProfiles(profiles, r) ==
    [profiles |-> [i \in 1..Len(profiles) |-> r[i].prof],
     defaulted |-> UNION {{<<i, j>> : j \in r[i].defaulted} : i \in 1..Len(profiles)}]

DefaultProfiles(profiles) ==
    LoopProfiles(profiles,
                 [i \in 1..Len(profiles) |-> setDefaults_KubeSchedulerProfile(profiles[i])])

\* componentbaseconfigv1alpha1.RecommendedDefaultLeaderElectionConfiguration
RecommendedDefaultLeaderElectionConfiguration(le) ==
    [le EXCEPT !.LeaseDuration = IF @ = 0 THEN 15 ELSE @,
               !.RenewDeadline = IF @ = 0 THEN 10 ELSE @,
               !.RetryPeriod = IF @ = 0 THEN 2 ELSE @,
               !.ResourceLock = IF @ = "" THEN "leases" ELSE @,
               !.LeaderElect = IF @ = <<>> THEN <<TRUE>> ELSE @]

\* PercentageOfNodesToScore, leader election and client connection.
DefaultConnection(obj) ==
    LET le1 == [obj.LeaderElection EXCEPT
                    !.ResourceLock = IF Len(@) = 0 THEN "leases" ELSE @,
                    !.ResourceNamespace =
                        IF Len(@) = 0 THEN SchedulerDefaultLockObjectNamespace ELSE @,
                    !.ResourceName =
                        IF Len(@) = 0 THEN SchedulerDefaultLockObjectName ELSE @]
        cc1 == [obj.ClientConnection EXCEPT
                    !.ContentType =
                        IF Len(@) = 0 THEN "application/vnd.kubernetes.protobuf" ELSE @,
                    !.QPS = IF @ = 0 THEN 50 ELSE @,
                    !.Burst = IF @ = 0 THEN 100 ELSE @]
    IN  [obj EXCEPT
            !.PercentageOfNodesToScore =
                IF @ = <<>> THEN <<DefaultPercentageOfNodesToScore>> ELSE @,
            !.LeaderElection = RecommendedDefaultLeaderElectionConfiguration(le1),
            !.ClientConnection = cc1]

\* PodInitialBackoffSeconds and PodMaxBackoffSeconds.
DefaultBackoff(obj) ==
    [obj EXCEPT !.PodInitialBackoffSeconds = IF @ = <<>> THEN <<1>> ELSE @,
                !.PodMaxBackoffSeconds = IF @ = <<>> THEN <<10>> ELSE @]

\* Variant: contention profiling is defaulted whatever EnableProfiling is.
DefaultProfiling_Unconditional(obj) ==
    [obj EXCEPT !.EnableProfiling = IF @ = <<>> THEN <<TRUE>> ELSE @,
                !.EnableContentionProfiling = IF @ = <<>> THEN <<TRUE>> ELSE @]

\* EnableProfiling, then EnableContentionProfiling.
DefaultProfiling(obj) ==
    LET o1 == [obj EXCEPT !.EnableProfiling = IF @ = <<>> THEN <<TRUE>> ELSE @]
    IN  IF o1.EnableProfiling[1] /\ o1.EnableContentionProfiling = <<>>
        THEN [o1 EXCEPT !.EnableContentionProfiling = <<TRUE>>]
        ELSE o1

\* The pass after its loop r over the profiles.
AfterProfiles(obj, r) ==
    [obj |-> DefaultProfiling(DefaultBackoff(DefaultConnection(
                 [obj EXCEPT !.Profiles = r.profiles]))),
     defaulted |-> r.defaulted]

WithProfiles(obj) == AfterProfiles(obj, DefaultProfiles(obj.Profiles))

\* The whole pass: the object as the pass leaves it, and the (profile, entry)
\* pairs passed to scheme.Default.
SetDefaults_KubeSchedulerConfiguration(obj) ==
    WithProfiles(DefaultSingleProfile(
        [obj EXCEPT !.Parallelism = IF @ = <<>> THEN <<16>> ELSE @]))

----------------------------------------------------------------------------
(* Inputs.                                                                 *)

SeqsUpTo(S, n) == UNION {[1..k -> S] : k \in 0..n}

Unknown(raw) == [Type |-> "Unknown", Raw |-> raw]

\* RawExtension{Object: nil}
NoArgs == [Type |-> "nil"]

ResourceSpecInputs == [Name : {"cpu", "gpu"}, Weight : 0..MaxWeight]

ResourcesInputs == SeqsUpTo(ResourceSpecInputs, MaxResources)

CustomShape == << [Utilization |-> 0, Score |-> 0], [Utilization |-> 50, Score |-> 5] >>

DefaultPreemptionArgsInputs ==
    {[ArgsZeroValue("DefaultPreemptionArgs") EXCEPT
          !.MinCandidateNodesPercentage = p, !.MinCandidateNodesAbsolute = a] :
        p \in {<<>>, <<0>>, <<20>>}, a \in {<<>>, <<0>>, <<50>>}}

InterPodAffinityArgsInputs ==
    {[ArgsZeroValue("InterPodAffinityArgs") EXCEPT !.HardPodAffinityWeight = w] :
        w \in {<<>>, <<0>>, <<7>>}}

VolumeBindingArgsInputs ==
    {[ArgsZeroValue("VolumeBindingArgs") EXCEPT !.BindTimeoutSeconds = t, !.Shape = sh] :
        t \in {<<>>, <<0>>, <<30>>},
        sh \in {<<>>, CustomShape, <<[Utilization |-> 100, Score |-> 3]>>}}

BalancedAllocationArgsInputs ==
    {[ArgsZeroValue("NodeResourcesBalancedAllocationArgs") EXCEPT !.Resources = rs] :
        rs \in ResourcesInputs}

PodTopologySpreadArgsInputs ==
    {[ArgsZeroValue("PodTopologySpreadArgs") EXCEPT !.DefaultingType = t] :
        t \in {"", "List", "System"}}

NodeResourcesFitArgsInputs ==
    {ArgsZeroValue("NodeResourcesFitArgs")}
    \cup {[ArgsZeroValue("NodeResourcesFitArgs") EXCEPT
               !.ScoringStrategy = << [Type |-> t, Resources |-> rs] >>] :
            t \in {"", "MostAllocated"}, rs \in ResourcesInputs}

ArgsInputs ==
    DefaultPreemptionArgsInputs \cup InterPodAffinityArgsInputs
    \cup VolumeBindingArgsInputs \cup BalancedAllocationArgsInputs
    \cup PodTopologySpreadArgsInputs \cup NodeResourcesFitArgsInputs

\* Entries an operator may put in a profile's PluginConfig.
PluginConfigEntryInputs ==
    { [Name |-> "VolumeBinding", Args |-> Unknown("bindTimeoutSeconds: 10")],
      [Name |-> "Custom", Args |-> Unknown("mode: fast")],
      [Name |-> "Custom", Args |-> NoArgs],
      [Name |-> "VolumeBinding", Args |-> ArgsZeroValue("VolumeBindingArgs")],
      [Name |-> "VolumeBinding",
       Args |-> [ArgsZeroValue("VolumeBindingArgs") EXCEPT
                    !.BindTimeoutSeconds = <<30>>, !.Shape = CustomShape]],
      [Name |-> "NodeResourcesFit",
       Args |-> [ArgsZeroValue("NodeResourcesFitArgs") EXCEPT
                    !.ScoringStrategy =
                        << [Type |-> "MostAllocated",
                            Resources |-> << [Name |-> "cpu", Weight |-> 0],
                                             [Name |-> "gpu", Weight |-> 3] >>] >>]],
      [Name |-> "InterPodAffinity",
       Args |-> [ArgsZeroValue("InterPodAffinityArgs") EXCEPT
                    !.HardPodAffinityWeight = <<0>>]],
      [Name |-> "DefaultPreemption",
       Args |-> [ArgsZeroValue("DefaultPreemptionArgs") EXCEPT
                    !.MinCandidateNodesPercentage = <<20>>]],
      [Name |-> "NodeResourcesBalancedAllocation",
       Args |-> [ArgsZeroValue("NodeResourcesBalancedAllocationArgs") EXCEPT
                    !.Resources = << [Name |-> "gpu", Weight |-> 0] >>]],
      [Name |-> "PodTopologySpread",
       Args |-> [ArgsZeroValue("PodTopologySpreadArgs") EXCEPT
                    !.DefaultingType = "List"]] }

PluginConfigInputs == SeqsUpTo(PluginConfigEntryInputs, MaxPluginConfig)

FewPluginConfigs ==
    { <<>>,
      << [Name |-> "VolumeBinding", Args |-> Unknown("bindTimeoutSeconds: 10")] >>,
      << [Name |-> "InterPodAffinity",
          Args |-> [ArgsZeroValue("InterPodAffinityArgs") EXCEPT
                       !.HardPodAffinityWeight = <<0>>]] >> }

\* Plugins an operator may enable.
UserPlugins ==
    { Plugin("Custom", <<>>), Plugin("NodeName", <<>>),
      Plugin("NodeResourcesFit", <<5>>), Plugin("NodeResourcesFit", <<1>>) }

\* Pipelines an operator may write: nil, or a MultiPoint set and a Score set.
PluginsInputs ==
    {<<>>}
    \cup { << [EmptyPlugins EXCEPT !.MultiPoint = [Enabled |-> en, Disabled |-> dis],
                                   !.Score.Enabled = sc] >> :
            en \in SeqsUpTo(UserPlugins, MaxEnabled),
            dis \in { <<>>, <<Plugin("*", <<>>)>>,
                      <<Plugin("VolumeBinding", <<>>), Plugin("InterPodAffinity", <<>>)>> },
            sc \in { <<>>, <<Plugin("VolumeBinding", <<>>)>>, <<Plugin("Custom", <<2>>)>> } }

FewPlugins ==
    { <<>>,
      << [EmptyPlugins EXCEPT !.MultiPoint.Disabled = <<Plugin("*", <<>>)>>,
                              !.Score.Enabled = <<Plugin("VolumeBinding", <<>>)>>] >>,
      << [EmptyPlugins EXCEPT !.MultiPoint.Enabled = <<Plugin("Custom", <<>>)>>,
                              !.Filter.Disabled = <<Plugin("NodeName", <<>>)>>] >> }

SchedulerNameInputs == {<<>>, <<"batch-scheduler">>}

EmptyLeaderElection ==
    [LeaderElect |-> <<>>, LeaseDuration |-> 0, RenewDeadline |-> 0, RetryPeriod |-> 0,
     ResourceLock |-> "", ResourceNamespace |-> "", ResourceName |-> ""]

LeaderElectionInputs ==
    { EmptyLeaderElection,
      [EmptyLeaderElection EXCEPT !.ResourceLock = "endpointsleases"],
      [EmptyLeaderElection EXCEPT !.LeaderElect = <<FALSE>>, !.LeaseDuration = 30,
                                  !.ResourceNamespace = "sched"],
      [LeaderElect |-> <<TRUE>>, LeaseDuration |-> 30, RenewDeadline |-> 20,
       RetryPeriod |-> 5, ResourceLock |-> "configmaps",
       ResourceNamespace |-> "sched", ResourceName |-> "my-scheduler"] }

EmptyConfig ==
    [Parallelism |-> <<>>, Profiles |-> <<>>, PercentageOfNodesToScore |-> <<>>,
     LeaderElection |-> EmptyLeaderElection,
     ClientConnection |-> [ContentType |-> "", QPS |-> 0, Burst |-> 0],
     PodInitialBackoffSeconds |-> <<>>, PodMaxBackoffSeconds |-> <<>>,
     EnableProfiling |-> <<>>, EnableContentionProfiling |-> <<>>]

\* Configurations that differ in their scalar fields only.
ScalarConfigInputs ==
    [Parallelism : {<<>>, <<0>>, <<4>>},
     Profiles : {<<>>},
     PercentageOfNodesToScore : {<<>>, <<50>>},
     LeaderElection : LeaderElectionInputs,
     ClientConnection : [ContentType : {"", "application/json"},
                         QPS : {0, 20}, Burst : {0, 30}],
     PodInitialBackoffSeconds : {<<>>, <<2>>},
     PodMaxBackoffSeconds : {<<>>, <<20>>},
     EnableProfiling : {<<>>, <<TRUE>>, <<FALSE>>},
     EnableContentionProfiling : {<<>>, <<TRUE>>, <<FALSE>>}]

\* One profile, every pipeline.
PipelineConfigInputs ==
    {[EmptyConfig EXCEPT !.Profiles =
          << [SchedulerName |-> n, Plugins |-> pl, PluginConfig |-> pc] >>] :
        n \in SchedulerNameInputs, pl \in PluginsInputs, pc \in FewPluginConfigs}

\* One profile, every PluginConfig list.
PluginConfigConfigInputs ==
    {[EmptyConfig EXCEPT !.Profiles =
          << [SchedulerName |-> <<>>, Plugins |-> pl, PluginConfig |-> pc] >>] :
        pl \in FewPlugins, pc \in PluginConfigInputs}

FewProfiles ==
    [SchedulerName : SchedulerNameInputs,
     Plugins : {pl \in FewPlugins : pl = <<>> \/ pl[1].Score.Enabled # <<>>},
     PluginConfig : {pc \in FewPluginConfigs : pc = <<>> \/ isUnknown(pc[1].Args)}]

\* Any number of profiles.
ProfilesConfigInputs ==
    {[EmptyConfig EXCEPT !.Profiles = ps] : ps \in SeqsUpTo(FewProfiles, MaxProfiles)}

----------------------------------------------------------------------------
(* The state machine.                                                      *)

InitConfig(c, gate) ==
    /\ cfg = c
    /\ input = c
    /\ prev = c
    /\ calls = 0
    /\ VolumeCapacityPriority = gate
    /\ args = NoArgs
    /\ argsIn = NoArgs
    /\ argsCalls = 0
    /\ schemeDefaulted = {}

Init ==
    \/ \E c \in ScalarConfigInputs : InitConfig(c, FALSE)
    \/ \E c \in PipelineConfigInputs, g \in BOOLEAN : InitConfig(c, g)
    \/ \E c \in PluginConfigConfigInputs, g \in BOOLEAN : InitConfig(c, g)
    \/ \E c \in ProfilesConfigInputs : InitConfig(c, FALSE)
    \/ \E a \in ArgsInputs :
          /\ cfg = EmptyConfig
          /\ input = EmptyConfig
          /\ prev = EmptyConfig
          /\ calls = 0
          /\ VolumeCapacityPriority \in
                IF a.Type = "VolumeBindingArgs" THEN BOOLEAN ELSE {FALSE}
          /\ args = a
          /\ argsIn = a
          /\ argsCalls = 0
          /\ schemeDefaulted = {}

\* One call of SetDefaults_KubeSchedulerConfiguration(&cfg).
SetDefaults ==
    /\ calls < MaxCalls
    /\ \E r \in {SetDefaults_KubeSchedulerConfiguration(cfg)} :
           /\ cfg' = r.obj
           /\ schemeDefaulted' = r.defaulted
    /\ calls' = calls + 1
    /\ prev' = cfg
    /\ UNCHANGED <<input, VolumeCapacityPriority, args, argsIn, argsCalls>>

ArgsCall(type, new) ==
    /\ args.Type = type
    /\ argsCalls < MaxCalls
    /\ args' = new
    /\ argsCalls' = argsCalls + 1
    /\ UNCHANGED <<cfg, input, prev, calls, VolumeCapacityPriority,
                   argsIn, schemeDefaulted>>

DefaultPreemptionArgs ==
    ArgsCall("DefaultPreemptionArgs", SetDefaults_DefaultPreemptionArgs(args))

InterPodAffinityArgs ==
    ArgsCall("InterPodAffinityArgs", SetDefaults_InterPodAffinityArgs(args))

VolumeBindingArgs ==
    ArgsCall("VolumeBindingArgs", SetDefaults_VolumeBindingArgs(args))

NodeResourcesBalancedAllocationArgs ==
    ArgsCall("NodeResourcesBalancedAllocationArgs",
             SetDefaults_NodeResourcesBalancedAllocationArgs(args))

PodTopologySpreadArgs ==
    ArgsCall("PodTopologySpreadArgs", SetDefaults_PodTopologySpreadArgs(args))

NodeResourcesFitArgs ==
    ArgsCall("NodeResourcesFitArgs", SetDefaults_NodeResourcesFitArgs(args))

Next ==
    \/ SetDefaults
    \/ DefaultPreemptionArgs
    \/ InterPodAffinityArgs
    \/ VolumeBindingArgs
    \/ NodeResourcesBalancedAllocationArgs
    \/ PodTopologySpreadArgs
    \/ NodeResourcesFitArgs

Spec == Init /\ [][Next]_vars

----------------------------------------------------------------------------
(* Properties.                                                             *)

\* The latest pass returned: cfg is what it made of prev.
Returned == calls >= 1

\* The profiles the latest pass worked on (an empty list got one empty profile).
InProfiles == IF Len(prev.Profiles) = 0 THEN <<EmptyProfile>> ELSE prev.Profiles

Count(pc, name) == Cardinality({j \in 1..Len(pc) : pc[j].Name = name})

ConfigNames(pc) == {pc[j].Name : j \in 1..Len(pc)}

UniqueNames(pc) == \A j, k \in 1..Len(pc) : pc[j].Name = pc[k].Name => j = k

HasKind(name) == (name \o "Args") \in KnownKinds

MergedAgain(prof) ==
    mergePlugins(getDefaultPlugins, prof.Plugins) = prof.Plugins

\* C1: a defaulting pass over an already-defaulted configuration changes
\* nothing (profiles, scheduler names, merged plugins, PluginConfig lists and
\* scalars all stay), provided the merge collaborator is idempotent on the
\* merged pipelines of that configuration.
C1_Idempotent ==
    (calls >= 2 /\ \A i \in 1..Len(prev.Profiles) : MergedAgain(prev.Profiles[i]))
        => cfg = prev

C1_Witness ==
    /\ calls = 2
    /\ Len(input.Profiles) = 1
    /\ input.Profiles[1].Plugins # <<>>
    /\ input.Profiles[1].PluginConfig # <<>>
    /\ Len(cfg.Profiles[1].PluginConfig) > Len(input.Profiles[1].PluginConfig)
    /\ MergedAgain(prev.Profiles[1])
    /\ cfg # input

\* C2: after defaulting, in every profile whose input PluginConfig names are
\* unique, each plugin enabled at any extension point of the merged pipeline
\* has exactly one PluginConfig entry when the registry knows the kind
\* name+"Args"; a name of unknown kind, and a name that is only disabled, has
\* no entry appended (it keeps the entries the input had).
C2_Complete ==
    Returned =>
        \A i \in 1..Len(cfg.Profiles) :
            LET in == InProfiles[i].PluginConfig
                out == cfg.Profiles[i].PluginConfig
                merged == cfg.Profiles[i].Plugins[1]
                enabled == UNION {SeqNames(merged[e].Enabled) : e \in ExtensionSet}
                disabled == UNION {SeqNames(merged[e].Disabled) : e \in ExtensionSet}
            IN  UniqueNames(in) =>
                    /\ \A n \in enabled :
                          IF HasKind(n) THEN Count(out, n) = 1
                          ELSE Count(out, n) = Count(in, n)
                    /\ \A n \in disabled \ enabled : Count(out, n) = Count(in, n)

C2_Witness ==
    /\ Returned /\ calls = 1
    /\ Len(input.Profiles) = 1
    /\ input.Profiles[1].Plugins # <<>>
    /\ input.Profiles[1].PluginConfig = <<>>
    /\ LET merged == cfg.Profiles[1].Plugins[1]
           out == cfg.Profiles[1].PluginConfig
       IN  /\ "Custom" \in SeqNames(merged.MultiPoint.Enabled)
           /\ Count(out, "Custom") = 0
           /\ "InterPodAffinity" \in SeqNames(merged.MultiPoint.Disabled)
           /\ Count(out, "InterPodAffinity") = 0
           /\ "VolumeBinding" \in SeqNames(merged.Score.Enabled)
           /\ "VolumeBinding" \notin SeqNames(merged.MultiPoint.Enabled)
           /\ Count(out, "VolumeBinding") = 1
           /\ "DefaultPreemption" \notin SeqNames(input.Profiles[1].Plugins[1].MultiPoint.Enabled)
           /\ Count(out, "DefaultPreemption") = 1

ResourcesKept(before, after) ==
    before # <<>> =>
        /\ Len(after) = Len(before)
        /\ \A k \in 1..Len(before) :
              /\ after[k].Name = before[k].Name
              /\ before[k].Weight # 0 => after[k].Weight = before[k].Weight

\* Every field of the argument object that was set (a non-nil pointer, a
\* non-empty list or string, a non-zero weight) has the value it had.
SetFieldsKept(before, after) ==
    /\ after.Type = before.Type
    /\ CASE before.Type = "DefaultPreemptionArgs" ->
              /\ before.MinCandidateNodesPercentage # <<>> =>
                    after.MinCandidateNodesPercentage = before.MinCandidateNodesPercentage
              /\ before.MinCandidateNodesAbsolute # <<>> =>
                    after.MinCandidateNodesAbsolute = before.MinCandidateNodesAbsolute
         [] before.Type = "InterPodAffinityArgs" ->
              before.HardPodAffinityWeight # <<>> =>
                    after.HardPodAffinityWeight = before.HardPodAffinityWeight
         [] before.Type = "VolumeBindingArgs" ->
              /\ before.BindTimeoutSeconds # <<>> =>
                    after.BindTimeoutSeconds = before.BindTimeoutSeconds
              /\ before.Shape # <<>> => after.Shape = before.Shape
         [] before.Type = "NodeResourcesBalancedAllocationArgs" ->
              ResourcesKept(before.Resources, after.Resources)
         [] before.Type = "PodTopologySpreadArgs" ->
              before.DefaultingType # "" => after.DefaultingType = before.DefaultingType
         [] before.Type = "NodeResourcesFitArgs" ->
              before.ScoringStrategy # <<>> =>
                  /\ after.ScoringStrategy # <<>>
                  /\ before.ScoringStrategy[1].Type # "" =>
                        after.ScoringStrategy[1].Type = before.ScoringStrategy[1].Type
                  /\ ResourcesKept(before.ScoringStrategy[1].Resources,
                                   after.ScoringStrategy[1].Resources)
         [] OTHER -> after = before

\* C3: defaulting never overwrites a field that is already set on an
\* argument object, whether the object is a PluginConfig entry of a profile
\* or is handed to its SetDefaults_* function directly; only unset fields
\* (nil, empty, zero weight) receive a value.
C3_NonDestructive ==
    /\ Returned =>
          \A i \in 1..Len(InProfiles) :
              \A j \in 1..Len(InProfiles[i].PluginConfig) :
                  /\ j <= Len(cfg.Profiles[i].PluginConfig)
                  /\ SetFieldsKept(InProfiles[i].PluginConfig[j].Args,
                                   cfg.Profiles[i].PluginConfig[j].Args)
    /\ argsCalls >= 1 => SetFieldsKept(argsIn, args)

C3_Witness ==
    /\ Returned /\ calls = 1
    /\ Len(input.Profiles) = 1
    /\ \E j \in 1..Len(input.Profiles[1].PluginConfig) :
          LET before == input.Profiles[1].PluginConfig[j].Args
              after == cfg.Profiles[1].PluginConfig[j].Args
          IN  /\ before.Type = "NodeResourcesFitArgs"
              /\ before.ScoringStrategy # <<>>
              /\ Len(before.ScoringStrategy[1].Resources) = 2
              /\ before.ScoringStrategy[1].Type = "MostAllocated"
              /\ before.ScoringStrategy[1].Resources[1].Weight = 0
              /\ before.ScoringStrategy[1].Resources[2].Weight = 3
              /\ after.ScoringStrategy[1].Type = "MostAllocated"
              /\ after.ScoringStrategy[1].Resources[1].Weight = 1
              /\ after.ScoringStrategy[1].Resources[2].Weight = 3
    /\ \E j \in 1..Len(input.Profiles[1].PluginConfig) :
          /\ input.Profiles[1].PluginConfig[j].Args.Type = "InterPodAffinityArgs"
          /\ cfg.Profiles[1].PluginConfig[j].Args.HardPodAffinityWeight = <<0>>

\* C4: after a pass Profiles is non-empty; no profile, or one profile
\* without a scheduler name, ends as one profile named by the system default;
\* a name set on a single profile is kept; with two or more profiles no
\* scheduler name is assigned or changed.
C4_SingleProfileNaming ==
    Returned =>
        /\ Len(cfg.Profiles) >= 1
        /\ Len(prev.Profiles) = 0 =>
              /\ Len(cfg.Profiles) = 1
              /\ cfg.Profiles[1].SchedulerName = <<DefaultSchedulerName>>
        /\ Len(prev.Profiles) = 1 =>
              /\ Len(cfg.Profiles) = 1
              /\ cfg.Profiles[1].SchedulerName =
                    IF prev.Profiles[1].SchedulerName = <<>>
                    THEN <<DefaultSchedulerName>>
                    ELSE prev.Profiles[1].SchedulerName
        /\ Len(prev.Profiles) >= 2 =>
              /\ Len(cfg.Profiles) = Len(prev.Profiles)
              /\ \A i \in 1..Len(prev.Profiles) :
                    cfg.Profiles[i].SchedulerName = prev.Profiles[i].SchedulerName

C4_Witness ==
    /\ Returned /\ calls = 1
    /\ Len(input.Profiles) = 2
    /\ input.Profiles[1].SchedulerName = <<>>
    /\ input.Profiles[2].SchedulerName = <<>>
    /\ cfg.Profiles[1].SchedulerName = <<>>
    /\ cfg.Profiles[2].SchedulerName = <<>>
    /\ cfg.Profiles[1].Plugins # <<>>

\* C5: an existing PluginConfig entry whose Args is a runtime.Unknown is not
\* passed to the registry's default-filler and is left exactly as supplied
\* by the pass, which goes on past it and returns; and its name counts as
\* configured, so no second entry of that name is appended, even if the
\* plugin is enabled and its argument kind is known.
C5_OpaqueUntouched ==
    Returned =>
          \A i \in 1..Len(InProfiles) :
              LET in == InProfiles[i].PluginConfig
                  out == cfg.Profiles[i].PluginConfig
              IN  \A j \in 1..Len(in) :
                      isUnknown(in[j].Args) =>
                          /\ j <= Len(out)
                          /\ out[j] = in[j]
                          /\ <<i, j>> \notin schemeDefaulted
                          /\ Count(out, in[j].Name) = Count(in, in[j].Name)

C5_Witness ==
    /\ Returned /\ calls = 1
    /\ Len(input.Profiles) = 1
    /\ Len(input.Profiles[1].PluginConfig) = 2
    /\ input.Profiles[1].PluginConfig[1].Name = "VolumeBinding"
    /\ isUnknown(input.Profiles[1].PluginConfig[1].Args)
    /\ ~isUnknown(input.Profiles[1].PluginConfig[2].Args)
    /\ schemeDefaulted = {<<1, 2>>}
    /\ "VolumeBinding" \in EnabledNames(cfg.Profiles[1].Plugins[1])
    /\ HasKind("VolumeBinding")
    /\ Count(cfg.Profiles[1].PluginConfig, "VolumeBinding") = 1
    /\ cfg.Profiles[1].PluginConfig[1] = input.Profiles[1].PluginConfig[1]

Defaulted(before, unset, default) == IF before = unset THEN default ELSE before

\* C7: after a pass each scalar field holds its input value if that was set
\* and the table constant otherwise; EnableContentionProfiling becomes true
\* only when it was unset and EnableProfiling, once defaulted, is true.
C7_ScalarDefaults ==
    Returned =>
        /\ cfg.Parallelism = Defaulted(prev.Parallelism, <<>>, <<16>>)
        /\ cfg.PercentageOfNodesToScore =
              Defaulted(prev.PercentageOfNodesToScore, <<>>, <<DefaultPercentageOfNodesToScore>>)
        /\ cfg.LeaderElection.ResourceLock =
              Defaulted(prev.LeaderElection.ResourceLock, "", "leases")
        /\ cfg.LeaderElection.ResourceNamespace =
              Defaulted(prev.LeaderElection.ResourceNamespace, "", "kube-system")
        /\ cfg.LeaderElection.ResourceName =
              Defaulted(prev.LeaderElection.ResourceName, "", "kube-scheduler")
        /\ cfg.ClientConnection.ContentType =
              Defaulted(prev.ClientConnection.ContentType, "",
                        "application/vnd.kubernetes.protobuf")
        /\ cfg.ClientConnection.QPS = Defaulted(prev.ClientConnection.QPS, 0, 50)
        /\ cfg.ClientConnection.Burst = Defaulted(prev.ClientConnection.Burst, 0, 100)
        /\ cfg.PodInitialBackoffSeconds = Defaulted(prev.PodInitialBackoffSeconds, <<>>, <<1>>)
        /\ cfg.PodMaxBackoffSeconds = Defaulted(prev.PodMaxBackoffSeconds, <<>>, <<10>>)
        /\ cfg.EnableProfiling = Defaulted(prev.EnableProfiling, <<>>, <<TRUE>>)
        /\ cfg.EnableContentionProfiling =
              IF prev.EnableContentionProfiling = <<>> /\ cfg.EnableProfiling = <<TRUE>>
              THEN <<TRUE>>
              ELSE prev.EnableContentionProfiling
        /\ prev = EmptyConfig =>
              /\ cfg.Parallelism = <<16>>
              /\ cfg.ClientConnection.QPS = 50
              /\ cfg.ClientConnection.Burst = 100
              /\ cfg.PodInitialBackoffSeconds = <<1>>
              /\ cfg.PodMaxBackoffSeconds = <<10>>
              /\ cfg.EnableProfiling = <<TRUE>>
              /\ cfg.EnableContentionProfiling = <<TRUE>>

C7_Witness ==
    /\ Returned /\ calls = 1
    /\ input.EnableProfiling = <<FALSE>>
    /\ input.EnableContentionProfiling = <<>>
    /\ cfg.EnableContentionProfiling = <<>>
    /\ input.Parallelism = <<0>>
    /\ cfg.Parallelism = <<0>>
    /\ input.ClientConnection.QPS = 0
    /\ cfg.ClientConnection.QPS = 50
    /\ input.ClientConnection.Burst = 30
    /\ cfg.ClientConnection.Burst = 30

\* C8: SetDefaults_VolumeBindingArgs leaves an empty Shape empty when the
\* VolumeCapacityPriority gate is off and makes it the two points (0, 0),
\* (100, MaxCustomPriorityScore) when the gate is on; a non-empty Shape is
\* kept; BindTimeoutSeconds becomes 600 when unset, whatever the gate.
C8_VolumeBindingShape ==
    (argsCalls >= 1 /\ args.Type = "VolumeBindingArgs") =>
        /\ args.Shape =
              IF argsIn.Shape # <<>> THEN argsIn.Shape
              ELSE IF VolumeCapacityPriority
              THEN << [Utilization |-> 0, Score |-> 0],
                      [Utilization |-> 100, Score |-> MaxCustomPriorityScore] >>
              ELSE <<>>
        /\ args.BindTimeoutSeconds =
              IF argsIn.BindTimeoutSeconds = <<>> THEN <<600>> ELSE argsIn.BindTimeoutSeconds

C8_Witness ==
    /\ argsCalls = 1
    /\ argsIn.Type = "VolumeBindingArgs"
    /\ VolumeCapacityPriority
    /\ argsIn.Shape = <<>>
    /\ Len(args.Shape) = 2
    /\ args.Shape[2] = [Utilization |-> 100, Score |-> MaxCustomPriorityScore]
    /\ argsIn.BindTimeoutSeconds = <<>>
    /\ args.BindTimeoutSeconds = <<600>>

\* The resource-spec list a defaulter must produce from list before.
Normalized(before, after) ==
    /\ before = <<>> => after = << [Name |-> "cpu", Weight |-> 1],
                                  [Name |-> "memory", Weight |-> 1] >>
    /\ before # <<>> =>
          /\ Len(after) = Len(before)
          /\ \A k \in 1..Len(before) :
                /\ after[k].Name = before[k].Name
                /\ after[k].Weight = IF before[k].Weight = 0 THEN 1 ELSE before[k].Weight
    /\ \A k \in 1..Len(after) : after[k].Weight # 0

\* C9: SetDefaults_NodeResourcesBalancedAllocationArgs and
\* SetDefaults_NodeResourcesFitArgs turn every weight 0 of a non-empty
\* resource list into 1 and keep every other weight, the length, the order
\* and the names; an empty list becomes (cpu 1, memory 1); no weight is 0
\* afterwards.
C9_WeightNormalization ==
    argsCalls >= 1 =>
        /\ args.Type = "NodeResourcesBalancedAllocationArgs" =>
              Normalized(argsIn.Resources, args.Resources)
        /\ args.Type = "NodeResourcesFitArgs" =>
              /\ args.ScoringStrategy # <<>>
              /\ Normalized(IF argsIn.ScoringStrategy = <<>> THEN <<>>
                            ELSE argsIn.ScoringStrategy[1].Resources,
                            args.ScoringStrategy[1].Resources)

C9_Witness ==
    /\ argsCalls = 1
    /\ argsIn.Type = "NodeResourcesFitArgs"
    /\ argsIn.ScoringStrategy # <<>>
    /\ Len(argsIn.ScoringStrategy[1].Resources) = 2
    /\ argsIn.ScoringStrategy[1].Resources[1].Weight = 0
    /\ argsIn.ScoringStrategy[1].Resources[2].Weight = 3
    /\ args.ScoringStrategy[1].Resources[1].Weight = 1
    /\ args.ScoringStrategy[1].Resources[2].Weight = 3

\* Name a sorts before name b in byte order.
Before(a, b) ==
    \E i, j \in 1..Len(StringOrder) :
        i < j /\ StringOrder[i] = a /\ StringOrder[j] = b

\* The entries a pass appended to a list that had n entries.
Appended(out, n) == [k \in 1..(Len(out) - n) |-> out[n + k]]

Reverse(s) == [k \in 1..Len(s) |-> s[Len(s) + 1 - k]]

\* The profile with every Enabled list reversed, and with every Enabled list
\* written twice.
Reordered(prof) ==
    IF prof.Plugins = <<>> THEN prof
    ELSE [prof EXCEPT !.Plugins =
             << [e \in ExtensionSet |-> [prof.Plugins[1][e] EXCEPT !.Enabled = Reverse(@)]] >>]

Repeated(prof) ==
    IF prof.Plugins = <<>> THEN prof
    ELSE [prof EXCEPT !.Plugins =
             << [e \in ExtensionSet |-> [prof.Plugins[1][e] EXCEPT !.Enabled = @ \o @]] >>]

\* C10: the PluginConfig list after a pass is the input list, entry by entry
\* at the same index and under the same name, followed by one new entry per
\* enabled plugin that had none and whose kind the registry knows, in
\* ascending order of name; reordering or repeating plugins inside the
\* Enabled lists of the input gives the same appended entries.
C10_AppendOnlySorted ==
    Returned =>
        \A i \in 1..Len(InProfiles) :
            LET in == InProfiles[i].PluginConfig
                out == cfg.Profiles[i].PluginConfig
                new == Appended(out, Len(in))
                enabled == UNION {SeqNames(cfg.Profiles[i].Plugins[1][e].Enabled) :
                                    e \in ExtensionSet}
            IN  /\ Len(out) >= Len(in)
                /\ \A j \in 1..Len(in) :
                      /\ out[j].Name = in[j].Name
                      /\ out[j].Args.Type = in[j].Args.Type
                /\ \A k \in 1..(Len(new) - 1) : Before(new[k].Name, new[k + 1].Name)
                /\ ConfigNames(new) = {n \in enabled : n \notin ConfigNames(in) /\ HasKind(n)}
                /\ \A k \in 1..Len(new) : new[k].Args.Kind = new[k].Name \o "Args"
                /\ \A variant \in {Reordered(InProfiles[i]), Repeated(InProfiles[i])} :
                      Appended(setDefaults_KubeSchedulerProfile(variant).prof.PluginConfig,
                               Len(in)) = new

C10_Witness ==
    /\ Returned /\ calls = 1
    /\ Len(input.Profiles) = 1
    /\ input.Profiles[1].Plugins # <<>>
    /\ Len(input.Profiles[1].Plugins[1].MultiPoint.Enabled) = 2
    /\ input.Profiles[1].Plugins[1].MultiPoint.Enabled[1].Name = "NodeResourcesFit"
    /\ input.Profiles[1].Plugins[1].MultiPoint.Enabled[2].Name = "Custom"
    /\ Len(input.Profiles[1].PluginConfig) = 1
    /\ input.Profiles[1].PluginConfig[1].Name = "InterPodAffinity"
    /\ [k \in 1..Len(cfg.Profiles[1].PluginConfig) |-> cfg.Profiles[1].PluginConfig[k].Name]
          = << "InterPodAffinity", "DefaultPreemption", "NodeAffinity",
               "NodeResourcesBalancedAllocation", "NodeResourcesFit",
               "PodTopologySpread", "VolumeBinding" >>

=============================================================================
